---- MODULE Spec2Model ----
(***************************************************************************)
(* The control core of the debugger: the goroutine that owns the traced    *)
(* process, the command and event channels, and the per-connection inbound *)
(* and outbound loops of the websocket server.                             *)
(*                                                                         *)
(* The repository holds two generations of the server side by side:        *)
(*   gen = 1  cmd/dlv/main.go + proctl/server/websocket.go: main drains a  *)
(*            channel of process operations; handlers run on the           *)
(*            connection's goroutine and submit closures with              *)
(*            ProcessManager.Exec; one resync goroutine per connection.    *)
(*   gen = 2  proctl/server/server.go + proctl/server/websocket/           *)
(*            websocket.go: Debugger.Run selects over Commands, its own    *)
(*            ticker and shutdown, and runs every handler itself.          *)
(* A behaviour is one run of one generation (gen never changes).           *)
(***************************************************************************)
EXTENDS Integers, Sequences, FiniteSets, TLC

\* ---- bounds of the model
MaxConns == 2
MaxFrames == 2
\* timer ticks, connection failures, interrupts and shutdown signals in a run
MaxAsync == 1
\* operations the Debugger handles in a run of commands taken one at a time
MaxCmds == 4

\* Frames the server writes to the client, command methods the terminal
\* calls, and reads the terminal's loop makes on a closed connection.
MaxIn == 3
MaxOut == 2
MaxClosedReads == 2

\* Lines the user types at the terminal.
MaxLines == 4

\* The largest payload value serialized.
MaxValue == 3

Conns == 1..MaxConns

\* ---- wire and protocol values

\* AddBreakPoint locations: one that resolves, one that does not.
LocMain10 == 1
LocNowhere == 0
Locs == {LocMain10, LocNowhere}
\* a second location that resolves
LocMain20 == 2
LocMain30 == 3

EvMessage == "Message"
EvBreakPoints == "BreakPointsUpdated"
EvThreads == "ThreadsUpdated"
EvProcess == "ProcessUpdated"
EvFiles == "FilesUpdated"

\* A decoded *api.Command: its name, the one argument its payload carries,
\* and whether the payload pointer of that name is populated.
Cmd(name, arg, pl) == [name |-> name, arg |-> arg, pl |-> pl]

\* The nil *api.Command.
NilCmd == Cmd("nil", 0, FALSE)

\* The frames a client may put on the wire.
\* k: the websocket message type; body: what the text holds.
Frame(k, body, cmd) == [k |-> k, body |-> body, cmd |-> cmd]

\* The symbol resolver: the address of a location, 0 when it does not resolve.
Resolve(loc) == IF loc = LocNowhere THEN 0 ELSE 4096 + loc

Frames ==
    {Frame("text", "object", Cmd("AddBreakPoint", l, TRUE)) : l \in Locs}
    \cup {Frame("text", "object", Cmd("AddBreakPoint", 0, FALSE))}
    \cup {Frame("text", "object", Cmd(n, 0, FALSE)) :
            n \in {"ClearBreakPoints", "Kill", "Continue"}}
    \cup {Frame("text", "object", Cmd("SwitchThread", 1, TRUE))}
    \cup {Frame("text", "null", NilCmd)}
    \cup {Frame("text", "garbage", NilCmd)}
    \cup {Frame("binary", "garbage", NilCmd)}

\* json.NewDecoder(...).Decode(&command) into a *api.Command: an object fills a
\* Command, the JSON value null leaves the pointer nil without an error, and
\* anything else is a decode error.
Decode(f) ==
    CASE f.body = "object" -> [err |-> FALSE, cmd |-> f.cmd]
      [] f.body = "null" -> [err |-> FALSE, cmd |-> NilCmd]
      [] OTHER -> [err |-> TRUE, cmd |-> NilCmd]

\* The keys of the commandHandlers map (SwitchThread has no entry).
HandlerNames ==
    {"AddBreakPoint", "Clear", "ClearBreakPoints", "Detach", "Kill",
     "Continue", "Step", "Next"}

\* ---- the process handle (package proctl, an external collaborator)

\* DebuggedProcess after Launch: stopped at its entry, no breakpoints,
\* breakpoint IDs counted from 1, and no wait status recorded yet.
ProcInit ==
    [status |-> "stopped", bps |-> {}, nextID |-> 1, threads |-> {1, 2}, cur |-> 1,
     waited |-> FALSE]

Exited(p) == p.status = "exited"

\* The debug registers a hardware breakpoint can occupy.
HWSlots == 1

\* Where Next puts its internal breakpoint.
TempAddr == 8192

\* A process that never finds a breakpoint at an address.
NeverHasBreakPointAt(p, addr) == FALSE

\* The process has a breakpoint at addr.
HasBreakPointAt(p, addr) == \E b \in p.bps : b.addr = addr

\* A process that numbers a breakpoint after those it holds now.
ReusedBreakPointID(p) == Cardinality(p.bps) + 1

\* The ID of the next breakpoint: a counter that only grows.
NextBreakPointID(p) == p.nextID

\* A new breakpoint: in a debug register while one is free, else in memory.
NewBreakPoint(p, addr, temp) ==
    [id |-> NextBreakPointID(p), addr |-> addr, temp |-> temp,
     hw |-> ~temp /\ Cardinality({b \in p.bps : b.hw}) < HWSlots]

\* A call on the process handle: the process afterwards and the error the
\* call returns.  out is what the traced process does during a resume.
ProcCall(p, fn, arg, out) ==
    CASE fn = "BreakByLocation" ->
           IF Resolve(arg) = 0
           THEN [p |-> p, err |-> "ResolutionError"]
           ELSE IF HasBreakPointAt(p, Resolve(arg))
           THEN [p |-> p, err |-> "DuplicateAddressError"]
           ELSE [p |-> [p EXCEPT !.bps = @ \cup {NewBreakPoint(p, Resolve(arg), FALSE)},
                                 !.nextID = NextBreakPointID(p) + 1],
                 err |-> "none"]
      [] fn = "Clear" ->
           IF HasBreakPointAt(p, arg)
           THEN [p |-> [p EXCEPT !.bps = {b \in @ : b.addr # arg}], err |-> "none"]
           ELSE [p |-> p, err |-> "NotFoundError"]
      [] fn = "ClearAll" -> [p |-> [p EXCEPT !.bps = {}], err |-> "none"]
      [] fn \in {"Continue", "Step"} ->
           [p |-> [p EXCEPT !.status = "running"], err |-> "none"]
      [] fn = "Next" ->
           \* Next runs the process up to an internal breakpoint of its own
           [p |-> [p EXCEPT !.status = "running",
                            !.bps = IF HasBreakPointAt(p, TempAddr) THEN @
                                    ELSE @ \cup {NewBreakPoint(p, TempAddr, TRUE)},
                            !.nextID = IF HasBreakPointAt(p, TempAddr) THEN @
                                       ELSE NextBreakPointID(p) + 1],
            err |-> "none"]
      [] fn = "Wait" ->
           \* a process that stopped has its internal breakpoints removed; in
           \* one that exited they can no longer be
           [p |-> [p EXCEPT !.status = out,
                            !.waited = TRUE,
                            !.bps = IF out = "exited" THEN @ ELSE {b \in @ : ~b.temp}],
            err |-> IF out = "exited" THEN "ProcessExitedError" ELSE "none"]
      [] fn = "Kill" ->
           IF Exited(p) THEN [p |-> p, err |-> "ESRCH"]
           ELSE [p |-> [p EXCEPT !.status = "exited"], err |-> "none"]
      [] fn = "PtraceDetach" ->
           IF Exited(p) THEN [p |-> p, err |-> "ESRCH"]
           ELSE [p |-> p, err |-> "none"]
      [] OTHER -> [p |-> p, err |-> "none"]

\* ---- handlers as programs: the steps a handler takes, in order

StepCall(x) == [t |-> "call", x |-> x]
StepEmit(x) == [t |-> "emit", x |-> x]
\* an emit the handler reaches only when the preceding call did not fail
StepEmitOk(x) == [t |-> "emitok", x |-> x]
\* the handler is inside proc.Continue/Step/Next until the process stops
StepWait == [t |-> "wait", x |-> "Wait"]

\* A handler that goes on only once the process has exited.
GuardInverted(p, rest) ==
    IF Exited(p) THEN <<StepCall("Exited")>> \o rest ELSE <<StepCall("Exited")>>

\* A handler that goes on whether or not the process has exited.
Unguarded(p, rest) == <<StepCall("Exited")>> \o rest

\* if d.process.Exited() { return nil }, then the rest
Guarded(p, rest) ==
    IF Exited(p) THEN <<StepCall("Exited")>> ELSE <<StepCall("Exited")>> \o rest

\* Debugger.<name>(command) of server.go, run by Debugger.Run itself.
RunHandler(name, p) ==
    CASE name = "AddBreakPoint" ->
           <<StepCall("BreakByLocation"), StepEmit(EvMessage), StepEmitOk(EvBreakPoints)>>
      [] name = "Clear" -> Guarded(p, <<StepCall("Clear")>>)
      [] name = "ClearBreakPoints" ->
           Guarded(p, <<StepCall("ClearAll"), StepEmit(EvMessage)>>)
      [] name = "Detach" -> <<StepEmit(EvMessage), StepCall("PtraceDetach")>>
      [] name = "Kill" -> <<StepEmit(EvMessage), StepCall("Kill")>>
      [] name \in {"Continue", "Step", "Next"} -> Guarded(p, <<StepCall(name), StepWait>>)
      [] OTHER -> <<>>

\* The ticker case of Debugger.Run: the three notifications, in order.
RunResync ==
    <<StepEmit(EvBreakPoints), StepEmit(EvThreads), StepEmit(EvProcess)>>

\* The operation closures of proctl/server/websocket.go, run by main's loop
\* (op(process)).  AddBreakPoint formats bp's fields before it looks at err.
MainOp(name, p) ==
    CASE name = "AddBreakPoint" ->
           <<StepCall("BreakByLocation"), [t |-> "emitbp", x |-> EvMessage]>>
      [] name = "Clear" -> Guarded(p, <<StepCall("Clear")>>)
      [] name = "ClearBreakPoints" ->
           Guarded(p, <<StepCall("ClearAll"), StepEmit(EvMessage)>>)
      [] name = "Detach" -> Guarded(p, <<StepEmit(EvMessage), StepCall("PtraceDetach")>>)
      [] name = "Kill" -> Guarded(p, <<StepEmit(EvMessage), StepCall("Kill")>>)
      [] name \in {"Continue", "Step", "Next"} -> Guarded(p, <<StepCall(name), StepWait>>)
      [] name = "NotifyBreakPointsUpdated" -> <<StepEmit(EvBreakPoints)>>
      [] name = "NotifyThreadsUpdated" -> <<StepEmit(EvThreads)>>
      [] name = "NotifyFilesUpdated" -> <<StepEmit(EvFiles)>>
      [] OTHER -> <<>>

\* The Exec calls a handler of proctl/server/websocket.go makes, in order, on
\* the goroutine of the connection that received the command.
ExecCalls(name) ==
    IF name = "AddBreakPoint"
    THEN <<"AddBreakPoint", "NotifyBreakPointsUpdated">>
    ELSE <<name>>

\* WebsocketServer.resync: the three notifications of one tick.
ResyncCalls == <<"NotifyBreakPointsUpdated", "NotifyThreadsUpdated", "NotifyFilesUpdated">>

NotifyNames == {"NotifyBreakPointsUpdated", "NotifyThreadsUpdated", "NotifyFilesUpdated"}

\* A snapshot that lists every breakpoint the process holds.
AllBreakPoints(bps) == {[id |-> b.id, addr |-> b.addr, hw |-> b.hw] : b \in bps}

\* The breakpoints NotifyBreakPointsUpdated lists: every hardware breakpoint,
\* and the software breakpoints that are not temporary.  hw tells which of
\* the two loops listed the breakpoint.
Visible(bps) ==
    {[id |-> b.id, addr |-> b.addr, hw |-> b.hw] : b \in {q \in bps : q.hw \/ ~q.temp}}

\* A notification that never reports the exit.
ProcessNeverExited(p) == FALSE

\* NotifyProcessUpdated's exited: status.Exited() of the wait status the
\* process handle holds, and true when it holds none.
ProcessExited(p) == IF p.waited THEN Exited(p) ELSE TRUE

\* The api.Event a handler sends: its place in the order of emission, its
\* name, and the snapshot it carries.
MakeEvent(seq, evname, opname, err, p) ==
    [seq |-> seq,
     name |-> evname,
     body |-> IF evname = EvMessage
              THEN (IF err = "none" THEN opname ELSE "Error setting breakpoint")
              ELSE "",
     bps |-> IF evname = EvBreakPoints THEN Visible(p.bps) ELSE {},
     exited |-> IF evname = EvProcess THEN ProcessExited(p) ELSE FALSE,
     threads |-> IF evname = EvThreads THEN p.threads ELSE {},
     current |-> IF evname = EvThreads THEN {th \in p.threads : th = p.cur} ELSE {}]

\* What building the snapshot of an event reads from the process handle.
SnapshotReads(evname) ==
    CASE evname = EvBreakPoints -> {"BreakPoints"}
      [] evname = EvThreads -> {"Threads", "CurrentPC"}
      [] evname = EvProcess -> {"GoSymTable", "Status"}
      [] evname = EvFiles -> {"GoSymTable"}
      [] OTHER -> {}

\* ---- state

VARIABLES
    gen,        \* which generation of the server this run is
    crashed,    \* "none", or the panic that ended the whole process
    proc,       \* the DebuggedProcess
    pcalls,     \* the latest calls on the process handle: who made them, which
    own,        \* the owner goroutine: main's loop, or Debugger.Run
    running,    \* the operations in progress: {[id, kind]}
    arrived,    \* operations the owner has taken so far
    tickC,      \* ticker channels holding a tick: 0 Run's, c resync(conn c)'s
    nAsync,     \* ticks, connection failures, interrupts and shutdown signals so far
    shutdown,   \* the shutdown channel is ready to be received from
    conn,       \* each connection: "none", "open", "broken"
    sub,        \* the goroutines that submit work: readCommands, resync
    wr,         \* each connection's writeEvents loop
    emitted,    \* every event sent on the Events channel, in order
    written,    \* per connection, the events written to it (their seq)
    startedAt,  \* per connection, how many events were emitted before it connected
    wfail,      \* per connection, whether a write to it has failed
    nFrames     \* frames read so far

\* The Debugger seen one command at a time: what the latest operation did.
VARIABLES
    last,       \* the latest operation handled, with the process before and after
    assigned,   \* the IDs given to the breakpoints AddBreakPoint set, in order
    cleared,    \* "no", or how the process was at the latest ClearBreakPoints
                \* with no AddBreakPoint since: "live" or "exited"
    owed,       \* a ClearBreakPoints was handled and no snapshot emitted since
    nCmds,      \* operations handled so far
    wire        \* the api value being serialized: built, encoded, decoded

\* The client side: WebsocketClient and the terminal's event loop.
VARIABLES
    cgen,       \* "next": client.go's NextEvent, read by Term.handleEvents;
                \* "chan": the client whose Events() feeds a channel
    cconn,      \* the client's connection: "open" or "closed"
    inbox,      \* frames the server wrote that the client has not read yet
    delivered,  \* what the consumer of events was handed, in order
    eos,        \* how many times the events channel was closed
    rdr,        \* the event loop: "reading", "done" or "crashed"
    closedReads,\* reads the loop made on the closed connection
    outbox,     \* command frames the client wrote
    ret,        \* what the latest command method returned
    nIn,        \* frames the server wrote so far
    nOut        \* command methods called so far

\* The terminal: Term, its cache and the Commands table.
VARIABLES
    cache,      \* Term.cache: breakPoints (a slice), threads, process
    lastCmd,    \* Commands.lastCmd: the handler Find remembered, or "nil"
    term,       \* Term.Run: "prompt", "confirm" (in handleExit) or "done"
    input,      \* the latest line Run read and what came of it
    nLines,     \* lines read so far
    commands    \* Commands.cmds, and the latest call of Register

cmdVars == <<last, assigned, cleared, owed, nCmds, wire>>

termVars == <<cache, lastCmd, term, input, nLines, commands>>

clientVars == <<cgen, cconn, inbox, delivered, eos, rdr, closedReads, outbox, ret,
                nIn, nOut, termVars>>

vars == <<gen, crashed, proc, pcalls, own, running, arrived, tickC, nAsync, shutdown,
          conn, sub, wr, emitted, written, startedAt, wfail, nFrames, cmdVars,
          clientVars>>

\* The server's side.
serverVars ==
    <<gen, crashed, proc, pcalls, own, running, arrived, tickC, nAsync, shutdown,
      conn, sub, wr, emitted, written, startedAt, wfail, nFrames>>

\* The variables only the owner's steps change.
ownerVars == <<crashed, proc, pcalls, own, running>>

Subs == {"rd", "rs"} \X Conns

IdleSub(pc) == [pc |-> pc, cmd |-> NilCmd, ops |-> <<>>, res |-> "none"]

IdleOwn ==
    [pc |-> "select", id |-> 0, kind |-> "none", name |-> "", cmd |-> NilCmd,
     src |-> <<"none", 0>>, todo |-> <<>>, err |-> "none"]

\* No operation handled yet.
NoOp ==
    [kind |-> "none", name |-> "", arg |-> 0, err |-> "none", crash |-> "none",
     pre |-> ProcInit, post |-> ProcInit, fns |-> {}, evs |-> <<>>, owed |-> FALSE]

\* Nothing serialized yet.
NoWire == [stage |-> "idle"]

CmdInit ==
    /\ last = NoOp
    /\ assigned = <<>>
    /\ cleared = "no"
    /\ owed = FALSE
    /\ nCmds = 0
    /\ wire = NoWire

\* No command method called yet.
NoCall == [name |-> "none", err |-> "none"]

\* terminal.New: empty slices and a zero api.Process.
CacheInit ==
    [breakPoints |-> <<>>,
     threads |-> [all |-> {}, current |-> {}],
     process |-> [files |-> FALSE, exited |-> FALSE]]

\* A line: its first word and the argument after it.
Line(word, arg) == [word |-> word, arg |-> arg]

\* Run has not returned.
Running == -1

NoInput ==
    [line |-> Line("", -1), fn |-> "none", err |-> "none", answer |-> "none",
     read |-> "none", code |-> Running]

\* A terminal at its first prompt.
\* The command table DebugCommands builds: for each command its aliases
\* and its handler, in the order of the slice.
DebugCommands ==
    << [aliases |-> {"help"}, cmdFn |-> "help"],
       [aliases |-> {"break", "b"}, cmdFn |-> "breakpoint"],
       [aliases |-> {"continue", "c"}, cmdFn |-> "cont"],
       [aliases |-> {"step", "si"}, cmdFn |-> "step"],
       [aliases |-> {"next", "n"}, cmdFn |-> "next"],
       [aliases |-> {"threads"}, cmdFn |-> "threads"],
       [aliases |-> {"thread", "t"}, cmdFn |-> "thread"],
       [aliases |-> {"clear"}, cmdFn |-> "clear"],
       [aliases |-> {"goroutines"}, cmdFn |-> "goroutines"],
       [aliases |-> {"breakpoints", "bp"}, cmdFn |-> "breakpoints"],
       [aliases |-> {"print", "p"}, cmdFn |-> "printVar"],
       [aliases |-> {"info"}, cmdFn |-> "info"],
       [aliases |-> {"exit"}, cmdFn |-> "nullCommand"] >>

\* No Register has been called.
NoRegister == [cmdstr |-> "", cf |-> "nil", was |-> <<>>]

TermInit ==
    /\ cache = CacheInit
    /\ lastCmd = "nil"
    /\ term = "prompt"
    /\ input = NoInput
    /\ nLines = 0
    /\ commands = [cmds |-> DebugCommands, call |-> NoRegister, n |-> 0]

\* A client that has opened its connection and started its event loop.
ClientInit ==
    /\ cconn = "open"
    /\ inbox = <<>>
    /\ delivered = <<>>
    /\ eos = 0
    /\ rdr = "reading"
    /\ closedReads = 0
    /\ outbox = <<>>
    /\ ret = NoCall
    /\ nIn = 0
    /\ nOut = 0
    /\ TermInit

\* Everything of the server but where the owner goroutine is.
ServerState ==
    /\ crashed = "none"
    /\ proc = ProcInit
    /\ pcalls = [actor |-> "owner", fns |-> {"Launch"}]
    /\ running = {}
    /\ arrived = 0
    /\ tickC = [t \in 0..MaxConns |-> FALSE]
    /\ nAsync = 0
    /\ shutdown = FALSE
    /\ conn = [c \in Conns |-> "none"]
    /\ sub = [s \in Subs |-> IdleSub("off")]
    /\ wr = [c \in Conns |-> [pc |-> "off", ev |-> 0]]
    /\ emitted = <<>>
    /\ written = [c \in Conns |-> <<>>]
    /\ startedAt = [c \in Conns |-> 0]
    /\ wfail = [c \in Conns |-> FALSE]
    /\ nFrames = 0

ServerInit ==
    /\ own = IdleOwn
    /\ ServerState

Init ==
    /\ gen \in {1, 2}
    /\ ServerInit
    /\ CmdInit
    /\ cgen = "next"
    /\ ClientInit

\* ---- the owner goroutine

\* A panic anywhere ends the whole process: nothing runs afterwards.
Alive == crashed = "none"

\* A loop that takes the next operation whatever it is doing.
OwnerAlwaysReceives == TRUE

\* A loop that takes a command while a resync step is still in progress.
OwnerIdleOrResyncing == own.pc = "select" \/ own.kind = "resync"

\* The owner is at the top of its loop.  It takes the next operation only
\* there: the handler or closure it runs returns before the next receive.
OwnerIdle == own.pc = "select"

\* An operation that runs on the goroutine that submitted it.
RunsOnSubmitter(src) == src[1]

\* The goroutine that runs an operation submitted by src: op(process) is
\* called in main's loop, handler(command) in Debugger.Run.
RunsOn(src) == "owner"

StartOp(id, kind, name, cmd, src, todo) ==
    [pc |-> "run", id |-> id, kind |-> kind, name |-> name, cmd |-> cmd,
     src |-> src, todo |-> todo, err |-> "none"]

\* The owner runs the steps at the head of todo that do not block, up to the
\* next channel send, the next wait for the traced process, a panic, or the
\* handler's return.
RECURSIVE RunOn(_, _, _, _, _)
RunOn(todo, p, e, cmd, fns) ==
    IF todo = <<>>
    THEN [todo |-> <<>>, p |-> p, err |-> e, crash |-> "none", fns |-> fns]
    ELSE LET st == Head(todo)
         IN  IF st.t = "call"
             THEN IF st.x \in {"BreakByLocation", "Clear"} /\ ~cmd.pl
                  THEN [todo |-> todo, p |-> p, err |-> e, crash |-> "nilPayload",
                        fns |-> fns]
                  ELSE LET r == ProcCall(p, st.x, cmd.arg, "stopped")
                       IN  RunOn(Tail(todo), r.p,
                                 IF st.x = "Exited" THEN e ELSE r.err,
                                 cmd, fns \cup {st.x})
             ELSE IF st.t = "emitok" /\ e # "none"
             THEN RunOn(Tail(todo), p, e, cmd, fns)
             ELSE IF st.t = "emitbp" /\ e # "none"
             THEN [todo |-> todo, p |-> p, err |-> e, crash |-> "nilBreakPoint",
                   fns |-> fns]
             ELSE [todo |-> todo, p |-> p, err |-> e, crash |-> "none", fns |-> fns]

\* Where a submitting goroutine goes when its handler has returned.
Rest(s) == IF s[1] = "rd" THEN "read" ELSE "idle"

\* Exec returns to the submitter: the handler's result is the result of its
\* first Exec, and the goroutine goes on to its next Exec or back to its loop.
Resume(st, s, name, e) ==
    LET res == IF name \in NotifyNames THEN st.res ELSE e
    IN  IF Len(st.ops) > 1
        THEN [st EXCEPT !.pc = "send", !.ops = Tail(@), !.res = res]
        ELSE [IdleSub(Rest(s)) EXCEPT !.res = res]

\* The owner has run operation o as far as r says, starting from the
\* submitters sb: it is blocked inside o, or it panicked, or o returned, its
\* result went to whoever waits for it, and the loop is back at its receive.
OwnerRuns(o, sb, r) ==
    /\ proc' = r.p
    /\ pcalls' = IF r.fns = {} THEN pcalls
                 ELSE [actor |-> RunsOn(o.src), fns |-> r.fns]
    /\ crashed' = r.crash
    /\ IF r.crash # "none" \/ r.todo # <<>>
       THEN /\ own' = [o EXCEPT !.todo = r.todo, !.err = r.err]
            /\ running' = running \cup {[id |-> o.id, kind |-> o.kind]}
            /\ sub' = sb
       ELSE /\ own' = IdleOwn
            /\ running' = running \ {[id |-> o.id, kind |-> o.kind]}
            /\ sub' = IF gen = 1
                      THEN [sb EXCEPT ![o.src] = Resume(@, o.src, o.name, r.err)]
                      ELSE sb

\* A sender that waits for its command's result.
SentAwaits(s) == IdleSub("wait")

\* readCommands after s.Debugger.Commands <- command: the send returns
\* nothing and the loop goes to its next read.
Sent(s) == IdleSub("read")

\* Debugger.Run, case command := <-d.Commands.
RunCommand(c) ==
    LET me == <<"rd", c>>
        cmd == sub[me].cmd
        sb == [sub EXCEPT ![me] = Sent(me)]
        o == StartOp(arrived + 1, "cmd", cmd.name, cmd, me, RunHandler(cmd.name, proc))
    IN
    /\ Alive
    /\ gen = 2
    /\ OwnerIdle
    /\ sub[me].pc = "send"
    /\ IF cmd = NilCmd
       THEN /\ crashed' = "nilCommand"
            /\ sub' = sb
            /\ UNCHANGED <<proc, pcalls, own, running, arrived>>
       ELSE IF cmd.name \notin HandlerNames
       THEN /\ sub' = sb
            /\ UNCHANGED <<crashed, proc, pcalls, own, running, arrived>>
       ELSE /\ OwnerRuns(o, sb, RunOn(o.todo, proc, "none", cmd, {}))
            /\ arrived' = arrived + 1
    /\ UNCHANGED <<cmdVars, clientVars>>
    /\ UNCHANGED <<gen, tickC, nAsync, shutdown, conn, wr, emitted, written, startedAt,
                   wfail, nFrames>>

\* Debugger.Run, case <-ticker.C.
RunTick ==
    LET o == StartOp(arrived + 1, "resync", "resync", NilCmd, <<"tick", 0>>, RunResync)
    IN
    /\ Alive
    /\ gen = 2
    /\ OwnerIdle
    /\ tickC[0]
    /\ tickC' = [tickC EXCEPT ![0] = FALSE]
    /\ OwnerRuns(o, sub, RunOn(o.todo, proc, "none", NilCmd, {}))
    /\ arrived' = arrived + 1
    /\ UNCHANGED <<cmdVars, clientVars>>
    /\ UNCHANGED <<gen, nAsync, shutdown, conn, wr, emitted, written, startedAt, wfail,
                   nFrames>>

\* Debugger.Run, case <-d.shutdown.
RunShutdown ==
    /\ Alive
    /\ gen = 2
    /\ OwnerIdle
    /\ shutdown
    /\ own' = [own EXCEPT !.pc = "stopped"]
    /\ UNCHANGED <<cmdVars, clientVars>>
    /\ UNCHANGED <<gen, crashed, proc, pcalls, running, arrived, tickC, nAsync, shutdown,
                   conn, sub, wr, emitted, written, startedAt, wfail, nFrames>>

\* main's loop, case op := <-processOps: the closure a goroutine submitted
\* with ProcessManager.Exec; the submitter now waits for its result.
MainRecv(s) ==
    LET kind == IF s[1] = "rs" THEN "resync" ELSE "cmd"
        name == Head(sub[s].ops)
        o == StartOp(arrived + 1, kind, name, sub[s].cmd, s, MainOp(name, proc))
        sb == [sub EXCEPT ![s].pc = "wait"]
    IN
    /\ Alive
    /\ gen = 1
    /\ OwnerIdle
    /\ sub[s].pc = "send"
    /\ OwnerRuns(o, sb, RunOn(o.todo, proc, "none", o.cmd, {}))
    /\ arrived' = arrived + 1
    /\ UNCHANGED <<cmdVars, clientVars>>
    /\ UNCHANGED <<gen, tickC, nAsync, shutdown, conn, wr, emitted, written, startedAt,
                   wfail, nFrames>>

\* The owner sends an event on the unbuffered events channel, the
\* writeEvents loop of connection c receives it, and the owner runs on.
OwnerEmit(c) ==
    LET st == Head(own.todo)
        ev == MakeEvent(Len(emitted) + 1, st.x, own.name, own.err, proc)
    IN
    /\ Alive
    /\ own.pc = "run"
    /\ own.todo # <<>>
    /\ st.t \in {"emit", "emitok", "emitbp"}
    /\ wr[c].pc = "recv"
    /\ emitted' = Append(emitted, ev)
    /\ wr' = [wr EXCEPT ![c] = [pc |-> "write", ev |-> ev.seq]]
    /\ OwnerRuns(own, sub, RunOn(Tail(own.todo), proc, own.err, own.cmd,
                                 SnapshotReads(st.x)))
    /\ UNCHANGED <<cmdVars, clientVars>>
    /\ UNCHANGED <<gen, arrived, tickC, nAsync, shutdown, conn, written, startedAt,
                   wfail, nFrames>>

\* The traced process stops or exits and proc.Continue (Step, Next) returns.
OwnerWait(out) ==
    LET st == Head(own.todo)
        r == ProcCall(proc, "Wait", 0, out)
    IN
    /\ Alive
    /\ own.pc = "run"
    /\ own.todo # <<>>
    /\ st.t = "wait"
    /\ OwnerRuns(own, sub, RunOn(Tail(own.todo), r.p, r.err, own.cmd, {"Wait"}))
    /\ UNCHANGED <<cmdVars, clientVars>>
    /\ UNCHANGED <<gen, arrived, tickC, nAsync, shutdown, conn, wr, emitted, written,
                   startedAt, wfail, nFrames>>

\* ---- connections

\* handleSocket: a client connected; its loops start.  Connections are
\* numbered in the order they connect.
HandleSocket(c) ==
    /\ Alive
    /\ conn[c] = "none"
    /\ \A b \in Conns : b < c => conn[b] # "none"
    /\ conn' = [conn EXCEPT ![c] = "open"]
    /\ sub' = [sub EXCEPT ![<<"rd", c>>] = IdleSub("read"),
                          ![<<"rs", c>>] = IF gen = 1 THEN IdleSub("idle") ELSE @]
    /\ wr' = [wr EXCEPT ![c] = [pc |-> "recv", ev |-> 0]]
    /\ startedAt' = [startedAt EXCEPT ![c] = Len(emitted)]
    /\ UNCHANGED <<cmdVars, clientVars>>
    /\ UNCHANGED <<gen, ownerVars, arrived, tickC, nAsync, shutdown, emitted, written,
                   wfail, nFrames>>

\* The peer went away or the network failed: reads and writes on the
\* connection fail from now on.
ConnBreaks(c) ==
    /\ Alive
    /\ conn[c] = "open"
    /\ nAsync < MaxAsync
    /\ nAsync' = nAsync + 1
    /\ conn' = [conn EXCEPT ![c] = "broken"]
    /\ UNCHANGED <<cmdVars, clientVars>>
    /\ UNCHANGED <<gen, ownerVars, arrived, tickC, shutdown, sub, wr, emitted,
                   written, startedAt, wfail, nFrames>>

\* What readCommands does with a decoded command.  Debugger.Run's server
\* hands every decoded command to the Commands channel; the older server
\* looks the handler up and runs it on this goroutine.
Dispatch(g, cmd) ==
    IF g = 2
    THEN [crash |-> "none", next |-> [IdleSub("send") EXCEPT !.cmd = cmd]]
    ELSE IF cmd = NilCmd
    THEN [crash |-> "nilCommand", next |-> IdleSub("read")]
    ELSE IF cmd.name \notin HandlerNames
    THEN [crash |-> "none", next |-> IdleSub("read")]
    ELSE IF cmd.name = "AddBreakPoint" /\ ~cmd.pl
    THEN [crash |-> "nilPayload", next |-> IdleSub("read")]
    ELSE [crash |-> "none",
          next |-> [IdleSub("send") EXCEPT !.cmd = cmd, !.ops = ExecCalls(cmd.name)]]

\* readCommands: one frame, up to the point where the goroutine blocks again.
ReadCommands(c, f) ==
    LET me == <<"rd", c>>
        d == Decode(f)
        r == Dispatch(gen, d.cmd)
    IN
    /\ Alive
    /\ conn[c] = "open"
    /\ sub[me].pc = "read"
    /\ nFrames < MaxFrames
    /\ nFrames' = nFrames + 1
    /\ IF f.k # "text" \/ d.err
       THEN UNCHANGED <<sub, crashed>>
       ELSE /\ crashed' = r.crash
            /\ sub' = IF r.crash = "none" /\ r.next.pc = "send"
                      THEN [sub EXCEPT ![me] = r.next]
                      ELSE sub
    /\ UNCHANGED <<cmdVars, clientVars>>
    /\ UNCHANGED <<gen, proc, pcalls, own, running, arrived, tickC, nAsync, shutdown,
                   conn, wr, emitted, written, startedAt, wfail>>

\* readCommands: ReadMessage fails and the loop returns.
ReadError(c) ==
    /\ Alive
    /\ conn[c] = "broken"
    /\ sub[<<"rd", c>>].pc = "read"
    /\ sub' = [sub EXCEPT ![<<"rd", c>>].pc = "done"]
    /\ UNCHANGED <<cmdVars, clientVars>>
    /\ UNCHANGED <<gen, ownerVars, arrived, tickC, nAsync, shutdown, conn, wr, emitted,
                   written, startedAt, wfail, nFrames>>

\* A ticker delivers a tick: Debugger.Run's (t = 0) or the one of
\* resync(conn t).
Ticker(t) ==
    /\ Alive
    /\ IF gen = 2 THEN t = 0 ELSE t \in Conns /\ sub[<<"rs", t>>].pc # "off"
    /\ nAsync < MaxAsync
    /\ ~tickC[t]
    /\ tickC' = [tickC EXCEPT ![t] = TRUE]
    /\ nAsync' = nAsync + 1
    /\ UNCHANGED <<cmdVars, clientVars>>
    /\ UNCHANGED <<gen, ownerVars, arrived, shutdown, conn, sub, wr, emitted, written,
                   startedAt, wfail, nFrames>>

\* WebsocketServer.resync, case <-ticker.C: the goroutine starts its three
\* notifications.
Resync(c) ==
    /\ Alive
    /\ gen = 1
    /\ sub[<<"rs", c>>].pc = "idle"
    /\ tickC[c]
    /\ tickC' = [tickC EXCEPT ![c] = FALSE]
    /\ sub' = [sub EXCEPT ![<<"rs", c>>] = [IdleSub("send") EXCEPT !.ops = ResyncCalls]]
    /\ UNCHANGED <<cmdVars, clientVars>>
    /\ UNCHANGED <<gen, ownerVars, arrived, nAsync, shutdown, conn, wr, emitted, written,
                   startedAt, wfail, nFrames>>

\* A writeEvents that returns once it has written an event.
AfterWriteReturns(failed) == "done"

\* Where writeEvents goes after conn.WriteMessage returned, failed or not:
\* back to its receive.
AfterWrite(failed) == "recv"

\* A connection that puts the latest message ahead of the earlier ones.
WriteMessageFirst(w, ev) == <<ev>> \o w

\* conn.WriteMessage: the message follows those written before it.
WriteMessage(w, ev) == Append(w, ev)

\* writeEvents: the event is marshalled and written to the connection.
WriteOk(c) ==
    /\ Alive
    /\ wr[c].pc = "write"
    /\ conn[c] = "open"
    /\ written' = [written EXCEPT ![c] = WriteMessage(@, wr[c].ev)]
    /\ wr' = [wr EXCEPT ![c] = [pc |-> AfterWrite(FALSE), ev |-> 0]]
    /\ UNCHANGED <<cmdVars, clientVars>>
    /\ UNCHANGED <<gen, ownerVars, arrived, tickC, nAsync, shutdown, conn, sub, emitted,
                   startedAt, wfail, nFrames>>

\* writeEvents: conn.WriteMessage fails; the error is logged.
WriteFail(c) ==
    /\ Alive
    /\ wr[c].pc = "write"
    /\ conn[c] = "broken"
    /\ wfail' = [wfail EXCEPT ![c] = TRUE]
    /\ wr' = [wr EXCEPT ![c] = [pc |-> AfterWrite(TRUE), ev |-> 0]]
    /\ UNCHANGED <<cmdVars, clientVars>>
    /\ UNCHANGED <<gen, ownerVars, arrived, tickC, nAsync, shutdown, conn, sub, emitted,
                   written, startedAt, nFrames>>

\* The shutdown signal is raised.
RaiseShutdown ==
    /\ Alive
    /\ gen = 2
    /\ ~shutdown
    /\ nAsync < MaxAsync
    /\ nAsync' = nAsync + 1
    /\ shutdown' = TRUE
    /\ UNCHANGED <<cmdVars, clientVars>>
    /\ UNCHANGED <<gen, ownerVars, arrived, tickC, conn, sub, wr, emitted,
                   written, startedAt, wfail, nFrames>>

\* What main's interrupt goroutine calls on the process handle.
InterruptCalls(p) ==
    IF p.status = "running" THEN {"Running", "RequestManualStop"} ELSE {"Running"}

\* main's interrupt goroutine, for range ch: SIGINT arrived.
Interrupt ==
    /\ Alive
    /\ gen = 1
    /\ nAsync < MaxAsync
    /\ nAsync' = nAsync + 1
    /\ pcalls' = [actor |-> "sigint", fns |-> InterruptCalls(proc)]
    /\ UNCHANGED <<cmdVars, clientVars>>
    /\ UNCHANGED <<gen, crashed, proc, own, running, arrived, tickC, shutdown,
                   conn, sub, wr, emitted, written, startedAt, wfail, nFrames>>

Next ==
    \/ \E c \in Conns : HandleSocket(c)
    \/ \E c \in Conns : ConnBreaks(c)
    \/ \E c \in Conns : \E f \in Frames : ReadCommands(c, f)
    \/ \E c \in Conns : ReadError(c)
    \/ \E c \in Conns : RunCommand(c)
    \/ RunTick
    \/ RunShutdown
    \/ \E s \in Subs : MainRecv(s)
    \/ \E c \in Conns : OwnerEmit(c)
    \/ \E out \in {"stopped", "exited"} : OwnerWait(out)
    \/ \E t \in 0..MaxConns : Ticker(t)
    \/ \E c \in Conns : Resync(c)
    \/ \E c \in Conns : WriteOk(c)
    \/ \E c \in Conns : WriteFail(c)
    \/ RaiseShutdown
    \/ Interrupt

Spec == Init /\ [][Next]_vars

\* ---- main: the server and the terminal are started

\* Where main is before its loop.
StartPcs == {"startServer", "startTerminal", "startTerminalUnserved"}

\* main has attached to the process and is about to call startServer; the
\* main of Debugger.Run's server is not in the repository and starts at its
\* loop.
StartInit ==
    /\ gen \in {1, 2}
    /\ own = IF gen = 1 THEN [IdleOwn EXCEPT !.pc = "startServer"] ELSE IdleOwn
    /\ ServerState
    /\ CmdInit
    /\ cgen = "next"
    /\ ClientInit

\* startServer: WebsocketServer.Run registers the handler and starts the
\* goroutine of http.ListenAndServe, which prints the error when the
\* listener cannot be started; main goes on to sleep and to startTerminal.
StartServer(listens) ==
    /\ Alive
    /\ gen = 1
    /\ own.pc = "startServer"
    /\ own' = [own EXCEPT !.pc = IF listens THEN "startTerminal"
                                ELSE "startTerminalUnserved"]
    /\ UNCHANGED <<gen, crashed, proc, pcalls, running, arrived, tickC, nAsync,
                   shutdown, conn, sub, wr, emitted, written, startedAt, wfail,
                   nFrames, cmdVars, clientVars>>

\* startTerminal: client.Open dials the server; a dial error is printed and
\* the process exits with status 1, else the terminal is started and main
\* enters its loop.  Nothing answers the dial when the listener is not there.
StartTerminal(dials) ==
    /\ Alive
    /\ own.pc \in {"startTerminal", "startTerminalUnserved"}
    /\ own.pc = "startTerminalUnserved" => ~dials
    /\ IF dials
       THEN own' = [own EXCEPT !.pc = "select"] /\ UNCHANGED crashed
       ELSE crashed' = "dialError" /\ UNCHANGED own
    /\ UNCHANGED <<gen, proc, pcalls, running, arrived, tickC, nAsync,
                   shutdown, conn, sub, wr, emitted, written, startedAt, wfail,
                   nFrames, cmdVars, clientVars>>

\* The goroutines of the server run once main is in its loop.
Started ==
    /\ own.pc \notin StartPcs
    /\ Next

StartNext ==
    \/ \E listens \in BOOLEAN : StartServer(listens)
    \/ \E dials \in BOOLEAN : StartTerminal(dials)
    \/ Started

StartSpec == StartInit /\ [][StartNext]_vars

\* ---- the Debugger, one command at a time

\* The connection and goroutine state a run of single commands leaves alone.
idleVars ==
    <<gen, own, running, arrived, tickC, nAsync, shutdown, conn, sub, wr, written,
      startedAt, wfail, nFrames>>

\* The commands a client sends, each well formed.
Commands ==
    {Cmd("AddBreakPoint", l, TRUE) : l \in {LocMain10, LocMain20, LocNowhere}}
    \cup {Cmd("Clear", Resolve(l), TRUE) : l \in {LocMain10, LocMain20}}
    \cup {Cmd(n, 0, FALSE) :
            n \in {"ClearBreakPoints", "Detach", "Kill", "Continue", "Step", "Next"}}
    \cup {Cmd("SwitchThread", id, TRUE) : id \in {2, 9}}

\* The closures of the Exec calls a goroutine makes, run one after another.
RECURSIVE ExecAll(_, _)
ExecAll(names, p) ==
    IF names = <<>> THEN <<>> ELSE MainOp(Head(names), p) \o ExecAll(Tail(names), p)

\* What the owner runs for an operation: the handler itself in Debugger.Run,
\* the closures the handler submits in the older server.
Program(g, name, p) ==
    IF name = "resync"
    THEN (IF g = 2 THEN RunResync ELSE ExecAll(ResyncCalls, p))
    ELSE (IF g = 2 THEN RunHandler(name, p) ELSE ExecAll(ExecCalls(name), p))

\* The owner runs a program to its end with a client that takes every event
\* at once: each send appends the event, and a resumed process ends as out.
RECURSIVE RunAll(_, _, _, _, _, _, _)
RunAll(todo, p, e, cmd, name, evs, out) ==
    LET r == RunOn(todo, p, e, cmd, {})
    IN  IF r.crash # "none" \/ r.todo = <<>>
        THEN [p |-> r.p, err |-> r.err, crash |-> r.crash, fns |-> r.fns, evs |-> evs]
        ELSE LET st == Head(r.todo)
             IN  IF st.t = "wait"
                 THEN LET w == ProcCall(r.p, "Wait", 0, out)
                          q == RunAll(Tail(r.todo), w.p, w.err, cmd, name, evs, out)
                      IN  [q EXCEPT !.fns = @ \cup r.fns \cup {"Wait"}]
                 ELSE LET ev == MakeEvent(Len(evs) + 1, st.x, name, r.err, r.p)
                          q == RunAll(Tail(r.todo), r.p, r.err, cmd, name,
                                      Append(evs, ev), out)
                      IN  [q EXCEPT !.fns = @ \cup r.fns \cup SnapshotReads(st.x)]

\* The events of evs that follow the first n.
After(evs, n) == SubSeq(evs, n + 1, Len(evs))

HasSnapshot(evs) == \E i \in DOMAIN evs : evs[i].name = EvBreakPoints

\* The owner handles one operation from its receive to its return.
Owner(kind, cmd, name, out) ==
    \E r \in {RunAll(Program(gen, name, proc), proc, "none", cmd, name, emitted, out)} :
    \E new \in {After(r.evs, Len(emitted))} :
    /\ Alive
    /\ nCmds' = nCmds + 1
    /\ proc' = r.p
    /\ crashed' = r.crash
    /\ pcalls' = IF r.fns = {} THEN pcalls
                 ELSE [actor |-> RunsOn(<<"rd", 1>>), fns |-> r.fns]
    /\ emitted' = r.evs
    /\ last' = [kind |-> kind, name |-> name, arg |-> cmd.arg, err |-> r.err,
                crash |-> r.crash, pre |-> proc, post |-> r.p, fns |-> r.fns,
                evs |-> new, owed |-> owed]
    /\ assigned' = IF name = "AddBreakPoint" /\ r.err = "none" /\ r.crash = "none"
                   THEN Append(assigned,
                               (CHOOSE b \in r.p.bps : b.addr = Resolve(cmd.arg)).id)
                   ELSE assigned
    /\ cleared' = IF name = "ClearBreakPoints"
                  THEN (IF Exited(proc) THEN "exited" ELSE "live")
                  ELSE IF name = "AddBreakPoint" THEN "no" ELSE cleared
    /\ owed' = IF HasSnapshot(new) THEN FALSE
               ELSE IF name = "ClearBreakPoints" THEN TRUE ELSE owed
    /\ UNCHANGED wire

\* The same, for a client that sends one command after another.
Handled(kind, cmd, name, out) ==
    /\ nCmds < MaxCmds
    /\ Owner(kind, cmd, name, out)
    /\ UNCHANGED <<idleVars, clientVars>>

\* Debugger.Run takes a command and runs its handler.
HandleCommand(cmd, out) ==
    /\ cmd.name \in HandlerNames
    /\ Handled("cmd", cmd, cmd.name, out)

\* The ticker fires between two commands: one resync.
HandleTick ==
    /\ Alive
    /\ Handled("resync", NilCmd, "resync", "stopped")

\* Debugger.Run takes a command whose name has no handler: it logs and goes
\* back to its select.
HandleNoHandler(cmd) ==
    /\ cmd.name \notin HandlerNames
    /\ Handled("cmd", cmd, cmd.name, "stopped")

CmdNext ==
    \/ \E cmd \in Commands : \E out \in {"stopped", "exited"} : HandleCommand(cmd, out)
    \/ \E cmd \in Commands : HandleNoHandler(cmd)
    \/ HandleTick

CmdSpec == Init /\ [][CmdNext]_vars

\* ---- the client and the terminal's event loop

\* A frame the client reads: its websocket message type, what its body is
\* as JSON, and the event the body encodes when it is an object.
EventFrame(type, body, ev) == [type |-> type, body |-> body, ev |-> ev]

\* The nil *api.Event.
NilEvent == MakeEvent(0, "nil", "", "none", ProcInit)

EventFrames ==
    {EventFrame("text", "object", MakeEvent(0, n, "", "none", ProcInit)) :
        n \in {EvMessage, EvBreakPoints}}
    \cup {EventFrame("text", "null", NilEvent),
          EventFrame("text", "garbage", NilEvent),
          EventFrame("binary", "garbage", NilEvent)}

\* dec.Decode(&event) into a *api.Event: an object fills an Event, null
\* leaves the pointer nil without an error, anything else is an error and
\* leaves the pointer nil.
DecodeEvent(f) ==
    CASE f.body = "object" -> [err |-> FALSE, ev |-> f.ev]
      [] f.body = "null" -> [err |-> FALSE, ev |-> NilEvent]
      [] OTHER -> [err |-> TRUE, ev |-> NilEvent]

\* NextEvent on a frame that was read: (nil, error) for a frame that is not
\* text or does not decode, else (event, nil).
NextEvent(f) ==
    IF f.type # "text" THEN [ev |-> NilEvent, err |-> "invalid message type"]
    ELSE IF DecodeEvent(f).err THEN [ev |-> NilEvent, err |-> "decode"]
    ELSE [ev |-> DecodeEvent(f).ev, err |-> "none"]

\* The command methods of client.Interface.
ClientMethods == HandlerNames \cup {"SwitchThread"}

\* The command a method called by a user of the client serializes.
MethodCommand(name) ==
    CASE name = "AddBreakPoint" -> Cmd(name, LocMain10, TRUE)
      [] name = "Clear" -> Cmd(name, Resolve(LocMain10), TRUE)
      [] name = "SwitchThread" -> Cmd(name, 2, TRUE)
      [] OTHER -> Cmd(name, 0, FALSE)

\* A writeMessage that reports success whatever the write did.
writeMessageIgnoresError(open) == "none"

\* writeMessage: marshal the command and write it; the error of the write is
\* the only one it can return for a Command.
writeMessage(open) == IF open THEN "none" ELSE "error writing obj"

\* c.conn.WriteMessage: the frames on the connection afterwards.
Written(box, cmd, open) == IF open THEN Append(box, cmd) ELSE box

\* What the consumer of the events is handed for a frame.
Delivery(ev, seq, bad) == [ev |-> ev.name, seq |-> seq, bad |-> bad]

Range(w) == {w[i] : i \in DOMAIN w}

\* The sequences that hold each element of S once.
Perms(S) ==
    {l \in [1..Cardinality(S) -> S] :
        \A i \in DOMAIN l : \A j \in DOMAIN l : i # j => l[i] # l[j]}

\* The orders in which NotifyBreakPointsUpdated can list bps: the debug
\* registers first, slot by slot, then the software breakpoints in the order
\* the range over the map yields them, which Go leaves open.
Listings(bps) ==
    {l \in Perms(bps) :
        \A i \in DOMAIN l : \A j \in DOMAIN l :
            (i < j /\ l[j].hw) => (l[i].hw /\ l[i].id < l[j].id)}

\* The switch of Term.handleEvents: the cache after an event, listed is the
\* slice a BreakPointsUpdated carried.
Store(c, ev, listed) ==
    CASE ev.name = EvBreakPoints -> [c EXCEPT !.breakPoints = listed]
      [] ev.name = EvThreads ->
           [c EXCEPT !.threads = [all |-> ev.threads, current |-> ev.current]]
      [] ev.name = EvFiles -> [c EXCEPT !.process.files = TRUE]
      [] OTHER -> c

\* The server writes a frame on the connection.
ServerWrites(f) ==
    /\ cconn = "open"
    /\ nIn < MaxIn
    /\ nIn' = nIn + 1
    /\ inbox' = Append(inbox, [f |-> f, seq |-> nIn + 1])
    /\ UNCHANGED <<cgen, cconn, delivered, eos, rdr, closedReads, outbox, ret, nOut>>
    /\ UNCHANGED <<termVars, cmdVars, serverVars>>

\* The connection closes; frames that arrived before are still read.
ConnCloses ==
    /\ cconn = "open"
    /\ cconn' = "closed"
    /\ UNCHANGED <<cgen, inbox, delivered, eos, rdr, closedReads, outbox, ret, nIn, nOut>>
    /\ UNCHANGED <<termVars, cmdVars, serverVars>>

\* One iteration of Term.handleEvents: NextEvent, continue on an error,
\* else switch on event.Name, which panics when the event is nil.
HandleEvents ==
    /\ cgen = "next"
    /\ rdr = "reading"
    /\ term # "done"
    /\ IF inbox = <<>>
       THEN /\ cconn = "closed"
            /\ closedReads < MaxClosedReads
            /\ closedReads' = closedReads + 1
            /\ UNCHANGED <<inbox, delivered, rdr, cache>>
       ELSE LET r == NextEvent(Head(inbox).f) IN
            /\ inbox' = Tail(inbox)
            /\ delivered' = IF r.err = "none" /\ r.ev # NilEvent
                            THEN Append(delivered, Delivery(r.ev, Head(inbox).seq, FALSE))
                            ELSE delivered
            /\ rdr' = IF r.err = "none" /\ r.ev = NilEvent THEN "crashed" ELSE rdr
            /\ IF r.err = "none" /\ r.ev # NilEvent
               THEN \E listed \in Listings(r.ev.bps) : cache' = Store(cache, r.ev, listed)
               ELSE cache' = cache
            /\ UNCHANGED closedReads
    /\ UNCHANGED <<cgen, cconn, eos, outbox, ret, nIn, nOut>>
    /\ UNCHANGED <<lastCmd, term, input, nLines, commands, cmdVars, serverVars>>

\* One iteration of the goroutine of Events(): a read error closes the
\* channel and ends the goroutine; a frame that is not text or does not
\* decode is reported and the event, nil then, is sent all the same.
EventsLoop ==
    /\ cgen = "chan"
    /\ rdr = "reading"
    /\ IF inbox = <<>>
       THEN /\ cconn = "closed"
            /\ eos' = eos + 1
            /\ rdr' = "done"
            /\ UNCHANGED <<inbox, delivered>>
       ELSE LET d == DecodeEvent(Head(inbox).f) IN
            /\ inbox' = Tail(inbox)
            /\ delivered' = Append(delivered, Delivery(d.ev, Head(inbox).seq, d.err))
            /\ UNCHANGED <<eos, rdr>>
    /\ UNCHANGED <<cgen, cconn, closedReads, outbox, ret, nIn, nOut>>
    /\ UNCHANGED <<termVars, cmdVars, serverVars>>

\* A command method: return c.writeMessage(&api.Command{...}).
ClientCommand(name) ==
    /\ rdr # "crashed"
    /\ nOut < MaxOut
    /\ nOut' = nOut + 1
    /\ ret' = [name |-> name, err |-> writeMessage(cconn = "open")]
    /\ outbox' = Written(outbox, MethodCommand(name), cconn = "open")
    /\ UNCHANGED <<cgen, cconn, inbox, delivered, eos, rdr, closedReads, nIn>>
    /\ UNCHANGED <<termVars, cmdVars, serverVars>>

ClientNext ==
    \/ \E f \in EventFrames : ServerWrites(f)
    \/ ConnCloses
    \/ HandleEvents
    \/ EventsLoop
    \/ \E name \in ClientMethods : ClientCommand(name)

\* Either generation of the client, beside a server that is left alone.
ClientSpecInit ==
    /\ gen = 2
    /\ ServerInit
    /\ CmdInit
    /\ cgen \in {"next", "chan"}
    /\ ClientInit

ClientSpec == ClientSpecInit /\ [][ClientNext]_vars

\* ---- the terminal: Term.Run, the Commands table and handleExit

\* The argument of a line that has none after its first word.
NoArg == -1

\* c.cmds: the handler registered for each alias.
Registered ==
    [help |-> "help", break |-> "breakpoint", b |-> "breakpoint",
     continue |-> "cont", c |-> "cont", step |-> "step", si |-> "step",
     next |-> "next", n |-> "next", threads |-> "threads", thread |-> "thread",
     t |-> "thread", clear |-> "clear", goroutines |-> "goroutines",
     breakpoints |-> "breakpoints", bp |-> "breakpoints", print |-> "printVar",
     p |-> "printVar", info |-> "info", exit |-> "nullCommand"]

\* A Find that remembers a miss as the last command.
FindRemembersMiss(word, remembered) ==
    IF word = ""
    THEN [fn |-> IF remembered # "nil" THEN remembered ELSE "nullCommand",
          last |-> remembered]
    ELSE IF word \in DOMAIN Registered
    THEN [fn |-> Registered[word], last |-> Registered[word]]
    ELSE [fn |-> "noCmdAvailable", last |-> "noCmdAvailable"]

\* Commands.Find: the handler for a first word, and lastCmd afterwards.
Find(word, remembered) ==
    IF word = ""
    THEN [fn |-> IF remembered # "nil" THEN remembered ELSE "nullCommand",
          last |-> remembered]
    ELSE IF word \in DOMAIN Registered
    THEN [fn |-> Registered[word], last |-> Registered[word]]
    ELSE [fn |-> "noCmdAvailable", last |-> remembered]

\* sort.Sort(ById(l)): the same breakpoints by ascending ID.
SortById(l) ==
    IF l = <<>> THEN <<>>
    ELSE CHOOSE m \in Perms(Range(l)) :
             \A i \in DOMAIN m : \A j \in DOMAIN m : i < j => m[i].id < m[j].id

\* The handlers of command.go: the cache afterwards, the command sent to the
\* server if any, and the error returned.  breakpoint sends AddBreakPoint,
\* breakpoints sorts the cached slice in place, cont, step, next, clear and
\* the rest have their bodies commented out and return nil.
CmdFn(fn, arg, c, open) ==
    CASE fn = "breakpoint" ->
           IF arg = NoArg
           THEN [cache |-> c, send |-> <<>>, err |-> "not enough arguments"]
           ELSE [cache |-> c, send |-> <<Cmd("AddBreakPoint", arg, TRUE)>>,
                 err |-> writeMessage(open)]
      [] fn = "breakpoints" ->
           [cache |-> [c EXCEPT !.breakPoints = SortById(@)], send |-> <<>>,
            err |-> "none"]
      [] fn = "noCmdAvailable" ->
           [cache |-> c, send |-> <<>>, err |-> "command not available"]
      [] OTHER -> [cache |-> c, send |-> <<>>, err |-> "none"]

\* The lines a user types.
Lines ==
    {Line(w, NoArg) : w \in {"", "breakpoints", "bogus", "exit"}}
    \cup {Line("break", l) : l \in {LocMain10, LocMain20, LocMain30, LocNowhere}}

\* What handleExit's prompt returns: an answer, or an error.
PromptError == "error"
Answers == {"y", "Y", "n", ""}

\* An exit that kills unless the answer is n.
ExitKillsUnlessNo(answer) == answer # "n"

\* if answer == "y" { client.Kill() }
ExitKills(answer) == answer = "y"

\* An exit that detaches before it clears the breakpoints.
ExitDetachesFirst(answer) ==
    <<Cmd("Detach", 0, FALSE), Cmd("ClearBreakPoints", 0, FALSE)>>
    \o (IF ExitKills(answer) THEN <<Cmd("Kill", 0, FALSE)>> ELSE <<>>)

\* The client methods handleExit calls, in order.
ExitSends(answer) ==
    <<Cmd("ClearBreakPoints", 0, FALSE), Cmd("Detach", 0, FALSE)>>
    \o (IF ExitKills(answer) THEN <<Cmd("Kill", 0, FALSE)>> ELSE <<>>)

\* What t.line.Prompt can fail with in promptForInput.
ReadErrors == {"EOF", "failed"}

\* The top of the loop of Term.Run, from the line and the error that
\* promptForInput returned: an empty line is skipped before the error is
\* looked at.
AfterPrompt(cmdstr, e) ==
    IF cmdstr = "" THEN "continue"
    ELSE IF e # "none" THEN (IF e = "EOF" THEN "handleExit" ELSE "return")
    ELSE IF cmdstr = "exit" THEN "handleExit"
    ELSE "dispatch"

\* One iteration of the loop of Term.Run: prompt, skip an empty line, leave
\* through handleExit on exit, else Find the handler and call it.
ReadLine(line) ==
    /\ term = "prompt"
    /\ rdr # "crashed"
    /\ nLines < MaxLines
    /\ nLines' = nLines + 1
    /\ IF AfterPrompt(line.word, "none") = "continue"
       THEN /\ input' = [NoInput EXCEPT !.line = line]
            /\ UNCHANGED <<cache, lastCmd, term, outbox, ret>>
       ELSE IF AfterPrompt(line.word, "none") = "handleExit"
       THEN /\ term' = "confirm"
            /\ input' = [NoInput EXCEPT !.line = line, !.fn = "handleExit"]
            /\ UNCHANGED <<cache, lastCmd, outbox, ret>>
       ELSE LET f == Find(line.word, lastCmd)
                r == CmdFn(f.fn, line.arg, cache, cconn = "open")
            IN  /\ lastCmd' = f.last
                /\ cache' = r.cache
                /\ outbox' = IF r.send = <<>> THEN outbox
                             ELSE Written(outbox, r.send[1], cconn = "open")
                /\ ret' = IF r.send = <<>> THEN ret
                          ELSE [name |-> r.send[1].name, err |-> r.err]
                /\ input' = [NoInput EXCEPT !.line = line, !.fn = f.fn, !.err = r.err]
                /\ UNCHANGED term
    /\ UNCHANGED <<cgen, cconn, inbox, delivered, eos, rdr, closedReads, nIn, nOut>>
    /\ UNCHANGED <<commands, cmdVars, serverVars>>

\* One iteration of the loop in which t.line.Prompt fails: promptForInput
\* returns the empty string with the error.
PromptFails(e) ==
    /\ term = "prompt"
    /\ nLines < MaxLines
    /\ nLines' = nLines + 1
    /\ LET do == AfterPrompt("", e) IN
       /\ term' = CASE do = "handleExit" -> "confirm"
                    [] do = "return" -> "done"
                    [] OTHER -> term
       /\ input' = [NoInput EXCEPT !.read = e,
                                   !.fn = IF do = "handleExit" THEN do ELSE "none",
                                   !.code = IF do = "return" THEN 1 ELSE Running]
    /\ UNCHANGED <<cache, lastCmd, outbox, ret>>
    /\ UNCHANGED <<cgen, cconn, inbox, delivered, eos, rdr, closedReads, nIn, nOut>>
    /\ UNCHANGED <<commands, cmdVars, serverVars>>

\* handleExit from its prompt on: nothing is sent when the prompt fails,
\* else ClearBreakPoints and Detach, then Kill for the answer y.
HandleExit(answer) ==
    /\ term = "confirm"
    /\ term' = "done"
    /\ input' = [input EXCEPT !.answer = answer,
                               !.code = IF answer = PromptError THEN 2 ELSE 0]
    /\ IF answer = PromptError
       THEN UNCHANGED <<outbox, ret>>
       ELSE /\ outbox' = IF cconn = "open" THEN outbox \o ExitSends(answer) ELSE outbox
            /\ ret' = [name |-> ExitSends(answer)[Len(ExitSends(answer))].name,
                       err |-> writeMessage(cconn = "open")]
    /\ UNCHANGED <<cache, lastCmd, nLines>>
    /\ UNCHANGED <<cgen, cconn, inbox, delivered, eos, rdr, closedReads, nIn, nOut>>
    /\ UNCHANGED <<commands, cmdVars, serverVars>>

\* The frames writeEvents writes for the events evs, after n earlier frames.
Wire(evs, n) ==
    [i \in 1..Len(evs) |-> [f |-> EventFrame("text", "object", evs[i]), seq |-> n + i]]

quietVars ==
    <<gen, own, running, arrived, tickC, shutdown, conn, sub, wr, written, startedAt,
      wfail, nFrames>>

\* The server reads the next command frame of the terminal's connection,
\* the owner handles it, and the events it emits are written to the terminal.
ServerHandles ==
    /\ outbox # <<>>
    /\ Owner("cmd", Head(outbox), Head(outbox).name, "stopped")
    /\ outbox' = Tail(outbox)
    /\ inbox' = inbox \o Wire(After(emitted', Len(emitted)), nIn)
    /\ nIn' = nIn + Len(emitted') - Len(emitted)
    /\ UNCHANGED <<cgen, cconn, delivered, eos, rdr, closedReads, ret, nOut, termVars>>
    /\ UNCHANGED <<quietVars, nAsync>>

\* The resync timer fires, and the three events are written to the terminal.
ServerTick ==
    /\ nAsync < MaxAsync
    /\ nAsync' = nAsync + 1
    /\ Owner("resync", NilCmd, "resync", "stopped")
    /\ inbox' = inbox \o Wire(After(emitted', Len(emitted)), nIn)
    /\ nIn' = nIn + Len(emitted') - Len(emitted)
    /\ UNCHANGED <<cgen, cconn, delivered, eos, rdr, closedReads, outbox, ret, nOut,
                   termVars>>
    /\ UNCHANGED quietVars

TermNext ==
    \/ \E line \in Lines : ReadLine(line)
    \/ \E e \in ReadErrors : PromptFails(e)
    \/ \E answer \in Answers \cup {PromptError} : HandleExit(answer)
    \/ HandleEvents
    \/ ServerHandles
    \/ ServerTick

\* One terminal connected to a server of either generation.
TermSpec == Init /\ [][TermNext]_vars

\* The server's loops and the terminal's event loop run when they can; the
\* user need not type and the timer need not fire.
FairTermSpec == TermSpec /\ WF_vars(ServerHandles) /\ WF_vars(HandleEvents)

\* ---- Commands.Register

MaxRegisters == 3

\* The names and the handlers custom commands are registered with.
RegisterNames == {"b", "exit", "quit", "x", ""}
CustomFns == {"custom1", "custom2"}

\* command.match: cmdstr is one of the aliases.
match(v, cmdstr) == cmdstr \in v.aliases

\* The loop of Find over a table: the handler of the first command that
\* matches, after the replay of the last command for an empty string.
FindIn(cmds, cmdstr, remembered) ==
    IF cmdstr = ""
    THEN (IF remembered # "nil" THEN remembered ELSE "nullCommand")
    ELSE IF \E i \in DOMAIN cmds : match(cmds[i], cmdstr)
    THEN cmds[CHOOSE i \in DOMAIN cmds :
                  /\ match(cmds[i], cmdstr)
                  /\ \A j \in 1..(i - 1) : ~match(cmds[j], cmdstr)].cmdFn
    ELSE "noCmdAvailable"

\* c.cmds after Register: `for _, v := range c.cmds` hands the loop a copy
\* of each command, so that `v.cmdFn = cf` changes the copy and the table
\* stays as it was when an alias matches; else a command is appended.
RegisterCmds(cmds, cmdstr, cf) ==
    IF \E i \in DOMAIN cmds : match(cmds[i], cmdstr)
    THEN cmds
    ELSE Append(cmds, [aliases |-> {cmdstr}, cmdFn |-> cf])

\* Commands.Register(cmdstr, cf, helpMsg).
Register(cmdstr, cf) ==
    /\ commands.n < MaxRegisters
    /\ commands' = [cmds |-> RegisterCmds(commands.cmds, cmdstr, cf),
                    call |-> [cmdstr |-> cmdstr, cf |-> cf, was |-> commands.cmds],
                    n |-> commands.n + 1]
    /\ UNCHANGED <<cache, lastCmd, term, input, nLines>>
    /\ UNCHANGED <<cgen, cconn, inbox, delivered, eos, rdr, closedReads, outbox, ret,
                   nIn, nOut>>
    /\ UNCHANGED <<cmdVars, serverVars>>

\* Custom commands are registered on the table of DebugCommands.
RegisterNext == \E cmdstr \in RegisterNames : \E cf \in CustomFns : Register(cmdstr, cf)

RegisterSpec == Init /\ [][RegisterNext]_vars

\* ---- the api types on the wire

\* The payload fields of api.Command, by the name of the command they
\* belong to, with their json tags.
CommandTags ==
    [AddBreakPoint |-> "addBreakPoint", ClearBreakPoints |-> "clearBreakPoints",
     Detach |-> "detach", Kill |-> "kill", SwitchThread |-> "switchThreads",
     Continue |-> "continue", Step |-> "step", Next |-> "step", Clear |-> "clear"]

\* The payload fields of api.Event with their json tags.
EventTags ==
    [Message |-> "message", ThreadsUpdated |-> "threadsUpdated",
     BreakPointsUpdated |-> "breakPointsUpdated", ProcessUpdated |-> "processUpdated"]

\* A struct as encoding/json sees it: the tag of each field, and the fields
\* tagged omitempty.
CommandType == [tags |-> CommandTags, omit |-> {}]
EventType ==
    [tags |-> EventTags, omit |-> {"Message", "ThreadsUpdated", "BreakPointsUpdated"}]
ApiTypes == [command |-> CommandType, event |-> EventType]

\* The fields encoding/json reads and writes: two fields of one struct
\* that are tagged with the same name are both ignored, without an error.
Encoded(ty) ==
    {f \in DOMAIN ty.tags : \A g \in DOMAIN ty.tags \ {f} : ty.tags[g] # ty.tags[f]}

\* The field a key of the JSON object belongs to.
FieldOf(ty, k) == CHOOSE f \in Encoded(ty) : ty.tags[f] = k

\* An api value: its name and its payload pointers, {} for nil and {x} for
\* a pointer to the payload x.
Value(name, fields, x) ==
    [name |-> name, pl |-> [f \in fields |-> IF f = name THEN {x} ELSE {}]]

\* json.Marshal: the object's keys and what each holds (null for nil); a
\* nil omitempty field has no key.
Marshal(ty, v) ==
    [name |-> v.name,
     obj |-> [k \in {ty.tags[f] : f \in {g \in Encoded(ty) :
                                           ~(g \in ty.omit /\ v.pl[g] = {})}}
                |-> v.pl[FieldOf(ty, k)]]]

\* Decoding into a zero value: a field is set from its key when the object
\* has it, and stays nil otherwise.
Unmarshal(ty, j) ==
    [name |-> j.name,
     pl |-> [f \in DOMAIN ty.tags |->
                IF f \in Encoded(ty) /\ ty.tags[f] \in DOMAIN j.obj
                THEN j.obj[ty.tags[f]] ELSE {}]]

\* The payloads a kind can carry: EmptyCommand has one value.
Values(name) ==
    IF name \in {"ClearBreakPoints", "Detach", "Kill", "Continue", "Step", "Next"}
    THEN {0} ELSE 0..MaxValue

\* The valid values of a type: the payload of the name, and no other.
Valid(ty) ==
    {Value(y[1], DOMAIN ty.tags, y[2]) :
        y \in {z \in (DOMAIN ty.tags) \X (0..MaxValue) : z[2] \in Values(z[1])}}

\* The api.Command a method of the client builds from its arguments.
Built(cmd) ==
    [name |-> cmd.name,
     pl |-> [f \in DOMAIN CommandTags |->
                IF f = cmd.name /\ cmd.pl THEN {cmd.arg} ELSE {}]]

\* A command method of the client builds its api.Command.
ClientBuilds(name) ==
    /\ wire.stage \in {"idle", "decoded"}
    /\ wire' = [stage |-> "built", ty |-> "command", v |-> Built(MethodCommand(name))]
    /\ UNCHANGED <<last, assigned, cleared, owed, nCmds, serverVars, clientVars>>

\* The values of a type that are written: the valid ones, and the
\* commands the client builds.
WrittenValues(t) ==
    Valid(ApiTypes[t]) \cup
    (IF t = "command" THEN {Built(MethodCommand(n)) : n \in ClientMethods} ELSE {})

\* json.Marshal of a value: the one the client built, or any valid one.
Marshals(t, v) ==
    /\ wire.stage # "encoded"
    /\ wire.stage = "built" => (t = wire.ty /\ v = wire.v)
    /\ wire' = [stage |-> "encoded", ty |-> t, v |-> v, json |-> Marshal(ApiTypes[t], v)]
    /\ UNCHANGED <<last, assigned, cleared, owed, nCmds, serverVars, clientVars>>

\* The peer decodes what was written.
Unmarshals ==
    /\ wire.stage = "encoded"
    /\ wire' = [stage |-> "decoded", ty |-> wire.ty, v |-> wire.v,
                got |-> Unmarshal(ApiTypes[wire.ty], wire.json)]
    /\ UNCHANGED <<last, assigned, cleared, owed, nCmds, serverVars, clientVars>>

WireNext ==
    \/ \E name \in ClientMethods : ClientBuilds(name)
    \/ \E t \in DOMAIN ApiTypes : \E v \in WrittenValues(t) : Marshals(t, v)
    \/ Unmarshals

\* Values of the api types are built, written and read back.
WireSpec == Init /\ [][WireNext]_vars

\* The code's scheduling: a goroutine that can run does run.  A client need
\* not connect, send, or read what is written to it, the timer need not fire,
\* and no signal need arrive.
FairSpec ==
    /\ Spec
    /\ \A c \in Conns : WF_vars(RunCommand(c))
    /\ WF_vars(RunTick)
    /\ WF_vars(RunShutdown)
    /\ \A s \in Subs : WF_vars(MainRecv(s))
    /\ \A c \in Conns : WF_vars(OwnerEmit(c))
    /\ WF_vars(\E out \in {"stopped", "exited"} : OwnerWait(out))
    /\ \A c \in Conns : WF_vars(Resync(c))
    /\ \A c \in Conns : WF_vars(ReadError(c))
    /\ \A c \in Conns : WF_vars(WriteFail(c))

\* ---- Debugger.Run's server with a client that reads

ChannelInit == Init /\ gen = 2

\* The goroutines of server.go and websocket/websocket.go.
ChannelNext ==
    \/ \E c \in Conns : HandleSocket(c)
    \/ \E c \in Conns : ConnBreaks(c)
    \/ \E c \in Conns : \E f \in Frames : ReadCommands(c, f)
    \/ \E c \in Conns : ReadError(c)
    \/ \E c \in Conns : RunCommand(c)
    \/ RunTick
    \/ RunShutdown
    \/ \E c \in Conns : OwnerEmit(c)
    \/ \E out \in {"stopped", "exited"} : OwnerWait(out)
    \/ \E t \in 0..MaxConns : Ticker(t)
    \/ \E c \in Conns : WriteOk(c)
    \/ \E c \in Conns : WriteFail(c)
    \/ RaiseShutdown

\* A goroutine that can run does run, and the first client reads what is
\* written to it: its conn.WriteMessage returns.  Other clients need not.
ChannelSpec ==
    /\ ChannelInit
    /\ [][ChannelNext]_vars
    /\ \A c \in Conns : WF_vars(RunCommand(c))
    /\ WF_vars(RunTick)
    /\ WF_vars(RunShutdown)
    /\ \A c \in Conns : WF_vars(OwnerEmit(c))
    /\ WF_vars(\E out \in {"stopped", "exited"} : OwnerWait(out))
    /\ \A c \in Conns : WF_vars(ReadError(c))
    /\ \A c \in Conns : WF_vars(WriteFail(c))
    /\ WF_vars(WriteOk(1))

\* ---- properties

\* Every outbound loop is waiting for the next event.
WritersIdle == \A c \in Conns : wr[c].pc # "write"

\* C1: the owner executes operations one at a time in the order it took
\* them: at most one operation is in progress, and it is the latest one
\* taken, so every operation taken earlier has finished.
C1_OneAtATime ==
    /\ Cardinality(running) <= 1
    /\ \A r \in running : r.id = arrived

\* a second operation is in progress, the first having finished
C1_SecondOpRunning == \E r \in running : r.id >= 2

\* C2: a resync step and a client's command are never in progress together.
C2_NoOverlap ==
    ~(\E a \in running : \E b \in running : a.kind = "cmd" /\ b.kind = "resync")

\* a resync step is in progress while a client's command waits to be taken
C2_CommandWaitsForResync ==
    /\ \E r \in running : r.kind = "resync"
    /\ \E c \in Conns : sub[<<"rd", c>>].pc = "send"

C5_FailureLeavesOwnerRunning == own.err # "none" => crashed = "none"

\* C6: when nothing is left to write, every connected client has been
\* written every event emitted since it connected.
C6_EveryClientGetsEveryEvent ==
    \A c \in Conns :
        (WritersIdle /\ conn[c] = "open" /\ ~wfail[c]) =>
            \A i \in (startedAt[c] + 1)..Len(emitted) : i \in Range(written[c])

\* C7: the events written to a client are in the order of their emission.
C7_WrittenInOrder ==
    \A c \in Conns : \A i \in DOMAIN written[c] : \A j \in DOMAIN written[c] :
        i < j => written[c][i] < written[c][j]

\* a client has been written two events
C7_TwoWritten == \E c \in Conns : Len(written[c]) >= 2

\* C8: a command a client has sent is eventually taken by the Debugger,
\* whatever the clients do with the events, unless the server has stopped.
C8_CommandEventuallyTaken ==
    \A c \in Conns :
        [](sub[<<"rd", c>>].pc = "send" =>
            <>(sub[<<"rd", c>>].pc # "send" \/ crashed # "none" \/ own.pc = "stopped"))

\* C9: no frame a client sends ends the server: one that decodes to no
\* command, or a command without its payload, leaves the Debugger running.
C9_BadFrameLeavesServerRunning == crashed \notin {"nilCommand", "nilPayload"}

\* C10: an outbound loop whose write has failed has terminated: it neither
\* waits for an event nor holds one.
C10_FailedLoopTerminated ==
    \A c \in Conns : wfail[c] => wr[c].pc \notin {"recv", "write"}

\* The user's breakpoints among bps.
UserBreakPoints(bps) == {b \in bps : ~b.temp}

StepCommands == {"Continue", "Step", "Next"}

\* C14: the IDs given to the breakpoints that AddBreakPoint set strictly
\* increase in the order the commands were handled, so they are pairwise
\* distinct and none is given again after its breakpoint was cleared.
C14_IDsIncrease ==
    \A i \in DOMAIN assigned : \A j \in DOMAIN assigned :
        i < j => assigned[i] < assigned[j]

\* a breakpoint was set on an empty collection after an earlier one was
\* set and cleared
C14_SetAfterClear ==
    /\ Len(assigned) >= 2
    /\ last.name = "AddBreakPoint"
    /\ last.err = "none"
    /\ UserBreakPoints(last.pre.bps) = {}

C16_UnresolvedLeavesDebuggerRunning ==
    (last.name = "AddBreakPoint" /\ Resolve(last.arg) = 0)
        => (last.err = "ResolutionError" /\ last.post = last.pre /\ last.crash = "none")

\* C17: when a command is taken, no ClearBreakPoints handled before it is
\* still without its breakpoints snapshot.
C17_SnapshotBeforeNextCommand == last.kind = "cmd" => ~last.owed

C19_ClearRemovesOne ==
    last.name = "Clear" =>
        IF \E b \in last.pre.bps : b.addr = last.arg
        THEN /\ last.err = "none"
             /\ last.post.bps = {b \in last.pre.bps : b.addr # last.arg}
        ELSE /\ last.err = "NotFoundError"
             /\ last.post.bps = last.pre.bps

\* C19 amended: while the process has not exited, Clear removes the
\* breakpoint at its address and no other, and fails with NotFoundError,
\* changing nothing, when there is none; once the process has exited, Clear
\* succeeds and changes nothing.
C19_ClearRemovesOneWhileLive ==
    last.name = "Clear" =>
        IF Exited(last.pre)
        THEN last.err = "none" /\ last.post = last.pre
        ELSE IF \E b \in last.pre.bps : b.addr = last.arg
        THEN /\ last.err = "none"
             /\ last.post.bps = {b \in last.pre.bps : b.addr # last.arg}
             /\ Cardinality(last.post.bps) = Cardinality(last.pre.bps) - 1
        ELSE /\ last.err = "NotFoundError"
             /\ last.post.bps = last.pre.bps

\* one of two breakpoints was cleared
C19_OneOfTwoCleared ==
    /\ last.name = "Clear"
    /\ last.err = "none"
    /\ Cardinality(last.pre.bps) = 2
    /\ Cardinality(last.post.bps) = 1

\* C20 as stated: Continue, Step and Next handled after the process has
\* exited succeed, make no call on the process handle and change nothing.
C20_NoCallAfterExit ==
    (last.name \in StepCommands /\ Exited(last.pre))
        => (last.err = "none" /\ last.fns = {} /\ last.post = last.pre)

\* C20 amended: Continue, Step and Next handled after the process has
\* exited succeed, call nothing on the process handle but Exited(), emit
\* nothing and change nothing.
C20_OnlyExitedAsked ==
    (last.name \in StepCommands /\ Exited(last.pre))
        => /\ last.err = "none"
           /\ last.fns = {"Exited"}
           /\ last.post = last.pre
           /\ last.evs = <<>>

\* Continue, Step or Next was handled after the process had exited
C20_ResumeAfterExit == last.name \in StepCommands /\ Exited(last.pre)

C12_BadFrameSkipped == \A i \in DOMAIN delivered : ~delivered[i].bad

\* C13: the loop that consumes the events reads a closed connection at most
\* once, and the end of the stream is signalled at most once with no event
\* delivered after it.
C13_ClosedConnectionIsFatal ==
    /\ closedReads <= 1
    /\ eos <= 1
    /\ rdr = "done" => eos = 1

\* The names of the events of evs, in order.
EventNames(evs) == [i \in DOMAIN evs |-> evs[i].name]

\* C21: a control operation handled after the process has exited succeeds,
\* calls nothing on the process handle but Exited(), and leaves the process
\* as it was, exited.
C21_NoOpAfterExit ==
    (last.kind = "cmd" /\ last.name \in HandlerNames /\ Exited(last.pre))
        => /\ last.err = "none"
           /\ last.fns \subseteq {"Exited"}
           /\ last.post = last.pre

C23_SwitchThreadSelects ==
    last.name = "SwitchThread" =>
        IF last.arg \in last.pre.threads
        THEN last.err = "none" /\ last.post.cur = last.arg
        ELSE last.err = "UnknownThreadError" /\ last.post.cur = last.pre.cur

\* C24: a resync emits one BreakPointsUpdated, one ThreadsUpdated and one
\* ProcessUpdated event, in that order, and nothing else.
C24_TickEmitsThreeSnapshots ==
    last.kind = "resync"
        => EventNames(last.evs) = <<EvBreakPoints, EvThreads, EvProcess>>

\* The breakpoints the cache lists at the address of a location.
CachedAt(loc) ==
    {i \in DOMAIN cache.breakPoints : cache.breakPoints[i].addr = Resolve(loc)}

\* The commands a step of the terminal put on the connection.
NewlySent == Range(After(outbox', Len(outbox)))

\* C25: once the terminal has sent AddBreakPoint for the valid location
\* main.go:10, its cache eventually lists exactly one breakpoint at that
\* location (or the terminal has been left).
C25_BreakPointReachesCache ==
    (\E i \in DOMAIN outbox : outbox[i] = Cmd("AddBreakPoint", LocMain10, TRUE))
        ~> (term = "done" \/ Cardinality(CachedAt(LocMain10)) = 1)

\* C26: no line the user types and no answer to the exit prompt changes the
\* cache, the order of its breakpoints included; only the event loop writes it.
C26_OnlyEventLoopWritesCache ==
    [][(nLines' # nLines \/ term' # term) => cache' = cache]_vars

\* The process a ProcessUpdated event carries: the files of the symbol
\* table, and whether the process has exited.
ProcessSnapshot(ev) == [files |-> TRUE, exited |-> ev.exited]

\* C27: when the terminal consumes a ProcessUpdated event, the cached process
\* becomes the process the event carries and the other entries stay.
C27_CacheHoldsLastSnapshot ==
    [][(delivered' # delivered /\ inbox # <<>> /\ Head(inbox).f.ev.name = EvProcess)
          => cache' = [cache EXCEPT !.process = ProcessSnapshot(Head(inbox).f.ev)]]_vars

\* C28: an empty line directly after a successful break command sends one
\* more AddBreakPoint for the same location, and an empty line before any
\* command sends nothing.
C28_EmptyLineRepeats ==
    [][(nLines' # nLines /\ input'.read = "none" /\ input'.line.word = "")
          => IF lastCmd = "nil" THEN outbox' = outbox
             ELSE (input.fn = "breakpoint" /\ input.err = "none")
                      => outbox' = Append(outbox, Cmd("AddBreakPoint", input.line.arg, TRUE))]_vars

\* C29: a line whose first word matches no command is answered with the
\* command-not-available error and nothing else: no command is sent, the
\* cache and the remembered last command stay, and the prompt returns.
C29_UnknownCommandIsHarmless ==
    [][(nLines' # nLines /\ input'.line.word \notin DOMAIN Registered \cup {""})
          => /\ input'.err = "command not available"
             /\ outbox' = outbox
             /\ cache' = cache
             /\ lastCmd' = lastCmd
             /\ term' = "prompt"]_vars

C29_UnknownAfterBreak ==
    /\ input.line.word = "bogus"
    /\ input.err = "command not available"
    /\ lastCmd = "breakpoint"
    /\ term = "prompt"

\* C30: when the exit prompt is answered, the terminal sends Detach, and it
\* sends Kill exactly when the answer is y.
C30_KillOnlyOnYes ==
    [][(term = "confirm" /\ term' = "done" /\ input'.answer # PromptError)
          => /\ Cmd("Detach", 0, FALSE) \in NewlySent
             /\ (Cmd("Kill", 0, FALSE) \in NewlySent) <=> (input'.answer = "y")]_vars

C30_EmptyAnswerDetaches ==
    /\ term = "done"
    /\ input.answer = ""
    /\ Cmd("Detach", 0, FALSE) \in Range(outbox)
    /\ Cmd("Kill", 0, FALSE) \notin Range(outbox)

\* C31: Run ends with code 1 when reading a line fails with an error other
\* than end of input, goes to the exit confirmation on end of input and on
\* exit, and ends there with code 0 when the confirmation is answered and
\* with code 2 when the confirmation prompt fails.
C31_RunExitCodes ==
    [][/\ (nLines' # nLines /\ input'.read = "failed")
             => (term' = "done" /\ input'.code = 1)
       /\ (nLines' # nLines /\ (input'.read = "EOF" \/ input'.line.word = "exit"))
             => term' = "confirm"
       /\ (term = "confirm" /\ term' = "done")
             => input'.code = (IF input'.answer = PromptError THEN 2 ELSE 0)]_vars

\* C32: once the shutdown signal is raised, the loop of Debugger.Run stops,
\* whatever it was doing when the signal came.
C32_ShutdownStopsRunLoop ==
    (gen = 2 /\ shutdown) ~> (own.pc = "stopped" \/ crashed # "none")

\* C33: the process goes on after no failure to start the listener, and is
\* ended by nothing but a failure of the client's first connection.
C33_OnlyStartupFailuresAreFatal ==
    /\ own.pc # "startTerminalUnserved"
    /\ crashed \in {"none", "dialError"}

\* C34: a valid Command or Event that was encoded and decoded again is
\* equal to the original, field for field.
C34_RoundTrip == wire.stage = "decoded" => wire.got = wire.v

\* C35: every Command a method of the client builds has the payload of
\* its name populated and every other payload absent.
C35_OnePayloadPerCommand ==
    wire.stage = "built"
        => \A f \in DOMAIN CommandTags : (wire.v.pl[f] # {}) <=> (f = wire.v.name)

\* C36: with a first client that keeps reading, a command that an inbound
\* loop holds for the owner is eventually taken, also while the owner is
\* emitting the events of that client's previous command (unless the server
\* has panicked or was shut down).
C36_NoChannelDeadlock ==
    \A c \in Conns :
        (sub[<<"rd", c>>].pc = "send")
            ~> (sub[<<"rd", c>>].pc # "send" \/ crashed # "none" \/ own.pc = "stopped")

C36_SenderWaitsWhileHandlerEmits ==
    /\ gen = 2
    /\ own.pc = "run"
    /\ own.kind = "cmd"
    /\ own.todo # <<>>
    /\ Head(own.todo).t \in {"emit", "emitok", "emitbp"}
    /\ sub[own.src].pc = "send"

\* C37: the owner takes a command of a connection only when no earlier
\* command of that connection is still in progress.
C37_ConnectionOrder ==
    [][\A c \in Conns :
          (sub[<<"rd", c>>].pc = "send" /\ sub'[<<"rd", c>>].pc # "send")
              => ~(own.pc = "run" /\ own.src = <<"rd", c>>)]_vars

\* the second command of the only connection is in progress, no tick having
\* fired
C37_SecondCommandOfConnection ==
    /\ gen = 2
    /\ own.pc = "run"
    /\ own.kind = "cmd"
    /\ own.id = 2
    /\ own.src = <<"rd", 1>>
    /\ conn[2] = "none"
    /\ nAsync = 0

\* C38: a ProcessUpdated snapshot says exited only of a process that has
\* exited.
C38_ExitedOnlyWhenExited ==
    \A i \in DOMAIN last.evs :
        (last.evs[i].name = EvProcess /\ last.evs[i].exited) => Exited(last.pre)

\* C39: leaving through handleExit puts ClearBreakPoints, then Detach, then
\* Kill when the answer is y, on the connection, once each and nothing after
\* them; the server takes the oldest command of the connection each time, so
\* that ClearBreakPoints is handled before Detach and Detach before Kill.
C39_ExitFlowOrder ==
    [][/\ (term = "confirm" /\ term' = "done" /\ input'.answer # PromptError
              /\ cconn = "open")
           => outbox' = outbox
                  \o <<Cmd("ClearBreakPoints", 0, FALSE), Cmd("Detach", 0, FALSE)>>
                  \o (IF input'.answer = "y" THEN <<Cmd("Kill", 0, FALSE)>> ELSE <<>>)
       /\ term = "done" => Len(outbox') <= Len(outbox)
       /\ Len(outbox') < Len(outbox)
           => /\ outbox' = Tail(outbox)
              /\ last'.kind = "cmd"
              /\ last'.name = Head(outbox).name
       /\ (last'.kind = "cmd" /\ last'.name = "ClearBreakPoints")
           => (outbox' # <<>> /\ Head(outbox').name = "Detach")
       /\ (last'.kind = "cmd" /\ last'.name = "Detach")
           => (\A i \in DOMAIN outbox' : outbox'[i].name = "Kill") /\ Len(outbox') <= 1
       /\ (last'.kind = "cmd" /\ last'.name = "Kill") => outbox' = <<>>]_vars

\* the user answered y, and the server has handled the Kill, the last of
\* the three commands
C39_KillHandledLast ==
    /\ term = "done"
    /\ input.answer = "y"
    /\ last.kind = "cmd"
    /\ last.name = "Kill"
    /\ outbox = <<>>

\* C40: after Register(name, fn, help), Find(name) returns fn; a name that
\* matched no alias is appended as a new command, a name that matches an
\* alias has that command's handler replaced, and no other command changes.
C40_RegisterThenFind ==
    commands.call # NoRegister =>
        LET name == commands.call.cmdstr
            fn == commands.call.cf
            was == commands.call.was
            now == commands.cmds
        IN  /\ FindIn(now, name, lastCmd) = fn
            /\ IF \E i \in DOMAIN was : match(was[i], name)
               THEN /\ Len(now) = Len(was)
                    /\ \A i \in DOMAIN was :
                           /\ now[i].aliases = was[i].aliases
                           /\ ~match(was[i], name) => now[i].cmdFn = was[i].cmdFn
               ELSE now = Append(was, [aliases |-> {name}, cmdFn |-> fn])

====
